---- MODULE Spec2Model ----
(***************************************************************************)
(* The attribute eraser of the ink! contract front end.                    *)
(*                                                                         *)
(*   crates/lang/ir/src/ir/contract.rs        Contract::new and            *)
(*                                            Contract::remove_ink_attrs   *)
(*   crates/lang/codegen/src/generator/original.rs                         *)
(*                                            Original::generate_code      *)
(*                                                                         *)
(* Both files define a private visitor InkAttrEraser over a syn::File.     *)
(* A token stream / syntax tree is modelled as the sequence of its syntax  *)
(* nodes in document (pre-)order, each node carrying its nesting depth:    *)
(* node i is a child of the nearest earlier node of depth one less.  A     *)
(* node is a module, a function or an attribute.  The attributes of an     *)
(* item follow the item node and precede the items nested in it.           *)
(***************************************************************************)
EXTENDS Integers, Sequences, FiniteSets, TLC

\* Bounds of the model: number of syntax nodes of the raw input and the
\* deepest nesting level of a node.
MaxNodes == 3
MaxDepth == 2

VARIABLES
    raw,            \* the `ink_module` token stream handed to Contract::new
    config,         \* the ir::Config (only its original_mod_name matters)
    pc,             \* position of the program
    tree,           \* `tree`: the syn::File being rewritten by the running eraser
    pos,            \* index of the next node visit_file_mut will visit
    mod_count,      \* InkAttrEraser.mod_count of the running eraser
    original_name,  \* InkAttrEraser.original_name of the running eraser
    renamed,        \* positions whose `module.ident = ...` assignment ran
    descended,      \* positions on which visit_mut::visit_attribute_mut was called
    stripped,       \* value returned by Contract::remove_ink_attrs
    result,         \* outcome of Contract::new
    contract,       \* the Contract built by Contract::new
    generated       \* value returned by Original::generate_code

vars == <<raw, config, pc, tree, pos, mod_count, original_name, renamed,
          descended, stripped, result, contract, generated>>

----------------------------------------------------------------------------
(* Syntax nodes                                                            *)

ModNames == {"m", "original"}

AttrNode(colon, path, tokens) ==
    [kind |-> "attr", ident |-> "", colon |-> colon, path |-> path, tokens |-> tokens]

ItemNode(kind, ident) ==
    [kind |-> kind, ident |-> ident, colon |-> FALSE, path |-> <<>>, tokens |-> ""]

\* #[ink(message)], #[ink(constructor)], #[::ink(message)],
\* #[ink::trait_definition], #[doc(inline)], #[other::test]
AttrShapes ==
    { AttrNode(FALSE, <<"ink">>, "(message)"),
      AttrNode(FALSE, <<"ink">>, "(constructor)"),
      AttrNode(TRUE, <<"ink">>, "(message)"),
      AttrNode(FALSE, <<"ink", "trait_definition">>, ""),
      AttrNode(FALSE, <<"doc">>, "(inline)"),
      AttrNode(FALSE, <<"other", "test">>, "") }

NodeShapes ==
    AttrShapes \cup {ItemNode("mod", n) : n \in ModNames} \cup {ItemNode("fn", "f")}

\* A node of a parsed stream: a shape, its nesting depth and its span.
Positioned(shape, depth, span) ==
    [kind |-> shape.kind, ident |-> shape.ident, colon |-> shape.colon,
     path |-> shape.path, tokens |-> shape.tokens, depth |-> depth, span |-> span]

\* The streams that parse as a syn::File, grown node by node: the first node
\* is at depth 0, a node nests at most one level below its predecessor and
\* never inside an attribute, and the attributes of an item directly follow
\* it (at depth 0: the inner attributes of the file come first).
CanFollow(s, shape, depth) ==
    IF s = <<>>
    THEN depth = 0
    ELSE LET p == s[Len(s)]
         IN  /\ depth <= p.depth + 1
             /\ depth = p.depth + 1 => p.kind # "attr"
             /\ shape.kind = "attr" =>
                   \/ p.depth = depth - 1
                   \/ p.kind = "attr" /\ p.depth = depth

RECURSIVE Streams(_)
Streams(n) ==
    IF n = 0
    THEN {<<>>}
    ELSE LET shorter == Streams(n - 1)
             longest == {s \in shorter : Len(s) = n - 1}
         IN  shorter \cup
             UNION { { Append(s, Positioned(c[1], c[2], n)) :
                         c \in {c \in NodeShapes \X (0..MaxDepth) :
                                   CanFollow(s, c[1], c[2])} }
                     : s \in longest }

RawInputs == Streams(MaxNodes) \ {<<>>}

\* ir::Config::original_mod_name(): None, `plain`, `::plain`, `a::b`
NoName == [some |-> FALSE, colon |-> FALSE, path |-> <<>>]
Configs ==
    { NoName,
      [some |-> TRUE, colon |-> FALSE, path |-> <<"plain">>],
      [some |-> TRUE, colon |-> TRUE, path |-> <<"plain">>],
      [some |-> TRUE, colon |-> FALSE, path |-> <<"a", "b">>] }

NoTokens == <<>>
NoContract == [present |-> FALSE]

----------------------------------------------------------------------------
(* syn, as the two files use it                                            *)

\* syn::parse2::<syn::ItemMod>: the stream must be exactly one module item.
\* The item owns its attributes (the attribute nodes right below it) and its
\* content (every other nested node).
parse2_ItemMod(ts) ==
    LET ok == /\ Len(ts) >= 1
              /\ ts[1].kind = "mod"
              /\ ts[1].depth = 0
              /\ \A i \in 2..Len(ts) : ts[i].depth >= 1
        IsOwnAttr(n) == n.kind = "attr" /\ n.depth = 1
        IsContent(n) == ~IsOwnAttr(n)
    IN  IF ok
        THEN [ok |-> TRUE,
              item |-> [ident |-> ts[1].ident, span |-> ts[1].span,
                        attrs |-> SelectSeq(Tail(ts), IsOwnAttr),
                        content |-> SelectSeq(Tail(ts), IsContent)]]
        ELSE [ok |-> FALSE, item |-> [ident |-> "", span |-> 0,
                                      attrs |-> <<>>, content |-> <<>>]]

\* syn::parse2::<syn::File>: inner attributes, then items, in document order.
parse2_File(ts) ==
    LET IsFileAttr(n) == n.kind = "attr" /\ n.depth = 0
        IsItem(n) == ~IsFileAttr(n)
    IN  SelectSeq(ts, IsFileAttr) \o SelectSeq(ts, IsItem)

\* ToTokens for syn::File: attributes then items, every token with its span.
into_token_stream(file) == [i \in 1..Len(file) |-> file[i]]

\* syn::Path::is_ident: no leading colon, exactly one segment, that ident.
Path_is_ident(p, name) ==
    /\ ~p.colon
    /\ Len(p.path) = 1
    /\ p.path[1] = name

\* syn::Path::get_ident: Some(ident) for a single bare segment, else None.
Path_get_ident(p) ==
    IF ~p.colon /\ Len(p.path) = 1 THEN <<p.path[1]>> ELSE <<>>

\* #[derive(Default)] of InkAttrEraser
InkAttrEraser_default == [mod_count |-> 0, original_name |-> ""]

----------------------------------------------------------------------------
(* crates/lang/ir/src/ir/contract.rs                                       *)

\* Mutant: the configured name is never read.
Contract_original_name_ignoring_config(cfg) ==
    [panic |-> FALSE, name |-> "original"]

\* config.original_mod_name().map_or("original", |val| val.get_ident()
\*     .expect("need a new legal module name for original code").to_string())
Contract_original_name(cfg) ==
    IF ~cfg.some
    THEN [panic |-> FALSE, name |-> "original"]
    ELSE IF Path_get_ident(cfg) = <<>>
         THEN [panic |-> TRUE, name |-> ""]
         ELSE [panic |-> FALSE, name |-> Path_get_ident(cfg)[1]]

\* Mutant: the `mod_count == 0` test is missing, every module is renamed.
Contract_visit_item_mod_mut_every_module(e, t, i) ==
    [e |-> [e EXCEPT !.mod_count = e.mod_count + 1],
     tree |-> [t EXCEPT ![i].ident = e.original_name],
     renamed |-> TRUE]

\* Mutant: the new name is put in front of the old one.
Contract_visit_item_mod_mut_prefixing(e, t, i) ==
    [e |-> [e EXCEPT !.mod_count = e.mod_count + 1],
     tree |-> IF e.mod_count = 0
              THEN [t EXCEPT ![i].ident = e.original_name \o "_" \o t[i].ident]
              ELSE t,
     renamed |-> e.mod_count = 0]

\* InkAttrEraser::visit_item_mod_mut on the module at position i of t:
\* the ident is rebuilt with the span of the old one.
Contract_visit_item_mod_mut(e, t, i) ==
    [e |-> [e EXCEPT !.mod_count = e.mod_count + 1],
     tree |-> IF e.mod_count = 0
              THEN [t EXCEPT ![i].ident = e.original_name,
                             ![i].span = t[i].span]
              ELSE t,
     renamed |-> e.mod_count = 0]

\* Mutant: a matching attribute is removed from the tree.
Contract_visit_attribute_mut_removing(t, i) ==
    IF Path_is_ident(t[i], "ink")
    THEN [tree |-> SubSeq(t, 1, i - 1) \o SubSeq(t, i + 1, Len(t)),
          descend |-> FALSE]
    ELSE [tree |-> t, descend |-> TRUE]

\* Mutant: the tokens are overwritten outside the `if`.
Contract_visit_attribute_mut_clobbering(t, i) ==
    IF Path_is_ident(t[i], "ink")
    THEN [tree |-> [t EXCEPT ![i].colon = FALSE,
                             ![i].path = <<"doc">>,
                             ![i].tokens = "(inline)"],
          descend |-> FALSE]
    ELSE [tree |-> [t EXCEPT ![i].tokens = "(inline)"], descend |-> TRUE]

\* InkAttrEraser::visit_attribute_mut on the attribute at position i of t:
\* the path becomes the single segment `doc` with the span of the old path,
\* the tokens become `(inline)`; otherwise the default visit descends.
Contract_visit_attribute_mut(t, i) ==
    IF Path_is_ident(t[i], "ink")
    THEN [tree |-> [t EXCEPT ![i].colon = FALSE,
                             ![i].path = <<"doc">>,
                             ![i].span = t[i].span,
                             ![i].tokens = "(inline)"],
          descend |-> FALSE]
    ELSE [tree |-> t, descend |-> TRUE]

\* eraser.visit_file_mut(&mut tree) from node i on, as one function.
RECURSIVE Contract_visit_file_mut(_, _, _)
Contract_visit_file_mut(e, t, i) ==
    IF i > Len(t)
    THEN t
    ELSE IF t[i].kind = "mod"
         THEN LET r == Contract_visit_item_mod_mut(e, t, i)
              IN  Contract_visit_file_mut(r.e, r.tree, i + 1)
         ELSE IF t[i].kind = "attr"
              THEN Contract_visit_file_mut(e, Contract_visit_attribute_mut(t, i).tree, i + 1)
              ELSE Contract_visit_file_mut(e, t, i + 1)

\* Contract::remove_ink_attrs as a function of its two arguments (the
\* configuration is one whose name resolves).
Contract_remove_ink_attrs(cfg, ink_module) ==
    LET eraser == [InkAttrEraser_default EXCEPT
                       !.original_name = Contract_original_name(cfg).name]
    IN  into_token_stream(Contract_visit_file_mut(eraser, parse2_File(ink_module), 1))

----------------------------------------------------------------------------
(* crates/lang/codegen/src/generator/original.rs                           *)

\* self.contract.ink_module(): the raw token stream the contract was built
\* from.
ink_module(c) == c.ink_module

\* Mutant: the configured name is never read.
Original_original_name_ignoring_config(cfg) ==
    [panic |-> FALSE, name |-> "original"]

\* self.contract.config().original_mod_name().map_or("original", ...)
Original_original_name(cfg) ==
    IF ~cfg.some
    THEN [panic |-> FALSE, name |-> "original"]
    ELSE IF Path_get_ident(cfg) = <<>>
         THEN [panic |-> TRUE, name |-> ""]
         ELSE [panic |-> FALSE, name |-> Path_get_ident(cfg)[1]]

\* Mutant: the new ident gets the call-site span, not the span of the path.
Original_visit_attribute_mut_call_site_span(t, i) ==
    IF Path_is_ident(t[i], "ink")
    THEN [tree |-> [t EXCEPT ![i].colon = FALSE,
                             ![i].path = <<"doc">>,
                             ![i].span = 0,
                             ![i].tokens = "(inline)"],
          descend |-> FALSE]
    ELSE [tree |-> t, descend |-> TRUE]

\* InkAttrEraser::visit_attribute_mut; the dbg! of a `trait_definition`
\* attribute writes to stderr only and changes no state.
Original_visit_attribute_mut(t, i) ==
    IF Path_is_ident(t[i], "ink")
    THEN [tree |-> [t EXCEPT ![i].colon = FALSE,
                             ![i].path = <<"doc">>,
                             ![i].span = t[i].span,
                             ![i].tokens = "(inline)"],
          descend |-> FALSE]
    ELSE [tree |-> t, descend |-> TRUE]

\* Mutant: the counter is incremented inside the `if`, so it counts renames.
Original_visit_item_mod_mut_counting_renames(e, t, i) ==
    [e |-> IF e.mod_count = 0 THEN [e EXCEPT !.mod_count = e.mod_count + 1] ELSE e,
     tree |-> IF e.mod_count = 0
              THEN [t EXCEPT ![i].ident = e.original_name,
                             ![i].span = t[i].span]
              ELSE t,
     renamed |-> e.mod_count = 0]

\* InkAttrEraser::visit_item_mod_mut, as in contract.rs.
Original_visit_item_mod_mut(e, t, i) ==
    [e |-> [e EXCEPT !.mod_count = e.mod_count + 1],
     tree |-> IF e.mod_count = 0
              THEN [t EXCEPT ![i].ident = e.original_name,
                             ![i].span = t[i].span]
              ELSE t,
     renamed |-> e.mod_count = 0]

----------------------------------------------------------------------------
(* The program                                                             *)

Init ==
    /\ raw \in RawInputs
    /\ config \in Configs
    /\ pc = "new"
    /\ tree = <<>>
    /\ pos = 0
    /\ mod_count = 0
    /\ original_name = ""
    /\ renamed = {}
    /\ descended = {}
    /\ stripped = NoTokens
    /\ result = "pending"
    /\ contract = NoContract
    /\ generated = NoTokens

\* Contract::new, lines 72-74: the module stream must parse as one ItemMod,
\* else the `?` returns the parse error.
Contract_new ==
    /\ pc = "new"
    /\ IF parse2_ItemMod(raw).ok
       THEN /\ pc' = "remove_ink_attrs"
            /\ result' = result
       ELSE /\ pc' = "failed"
            /\ result' = "Err"
    /\ UNCHANGED <<raw, config, tree, pos, mod_count, original_name, renamed,
                   descended, stripped, contract, generated>>

\* Contract::remove_ink_attrs, lines 126-135: parse the file, build the
\* default eraser, resolve the name; `expect` panics on a path that is no
\* single identifier.
Contract_remove_ink_attrs_enter ==
    /\ pc = "remove_ink_attrs"
    /\ tree' = parse2_File(raw)
    /\ mod_count' = InkAttrEraser_default.mod_count
    /\ renamed' = {}
    /\ descended' = {}
    /\ pos' = 1
    /\ IF Contract_original_name(config).panic
       THEN /\ original_name' = InkAttrEraser_default.original_name
            /\ result' = "panic"
            /\ pc' = "panicked"
       ELSE /\ original_name' = Contract_original_name(config).name
            /\ result' = result
            /\ pc' = "Contract_visit_file_mut"
    /\ UNCHANGED <<raw, config, stripped, contract, generated>>

\* visit_file_mut reaches a module: the overridden visit_item_mod_mut.
Contract_visit_mod ==
    /\ pc = "Contract_visit_file_mut"
    /\ pos <= Len(tree)
    /\ tree[pos].kind = "mod"
    /\ LET r == Contract_visit_item_mod_mut(
                    [mod_count |-> mod_count, original_name |-> original_name], tree, pos)
       IN  /\ tree' = r.tree
           /\ mod_count' = r.e.mod_count
           /\ original_name' = r.e.original_name
           /\ renamed' = IF r.renamed THEN renamed \cup {pos} ELSE renamed
    /\ pos' = pos + 1
    /\ UNCHANGED <<raw, config, pc, descended, stripped, result, contract, generated>>

\* visit_file_mut reaches an attribute: the overridden visit_attribute_mut.
Contract_visit_attr ==
    /\ pc = "Contract_visit_file_mut"
    /\ pos <= Len(tree)
    /\ tree[pos].kind = "attr"
    /\ LET r == Contract_visit_attribute_mut(tree, pos)
       IN  /\ tree' = r.tree
           /\ descended' = IF r.descend THEN descended \cup {pos} ELSE descended
    /\ pos' = pos + 1
    /\ UNCHANGED <<raw, config, pc, mod_count, original_name, renamed, stripped,
                   result, contract, generated>>

\* visit_file_mut reaches any other node: syn's default visit, no mutation.
Contract_visit_other ==
    /\ pc = "Contract_visit_file_mut"
    /\ pos <= Len(tree)
    /\ tree[pos].kind \notin {"mod", "attr"}
    /\ pos' = pos + 1
    /\ UNCHANGED <<raw, config, pc, tree, mod_count, original_name, renamed,
                   descended, stripped, result, contract, generated>>

\* Contract::remove_ink_attrs, line 137: the rewritten file as tokens.
Contract_remove_ink_attrs_return ==
    /\ pc = "Contract_visit_file_mut"
    /\ pos > Len(tree)
    /\ stripped' = into_token_stream(tree)
    /\ pc' = "new_finish"
    /\ UNCHANGED <<raw, config, tree, pos, mod_count, original_name, renamed,
                   descended, result, contract, generated>>

\* Contract::new, lines 77-83: parse the stripped stream back into an
\* ItemMod, convert the module into the ir (which may reject it), build Self.
Contract_new_finish ==
    /\ pc = "new_finish"
    /\ \E ir_ok \in BOOLEAN :
          IF parse2_ItemMod(stripped).ok /\ ir_ok
          THEN /\ contract' = [present |-> TRUE,
                               original_item |-> parse2_ItemMod(stripped).item,
                               config |-> config,
                               ink_module |-> raw]
               /\ result' = "Ok"
               /\ pc' = "constructed"
          ELSE /\ contract' = contract
               /\ result' = "Err"
               /\ pc' = "failed"
    /\ UNCHANGED <<raw, config, tree, pos, mod_count, original_name, renamed,
                   descended, stripped, generated>>

\* Original::generate_code, lines 74-83.
Original_generate_code_enter ==
    /\ pc = "constructed"
    /\ contract.present
    /\ tree' = parse2_File(ink_module(contract))
    /\ mod_count' = InkAttrEraser_default.mod_count
    /\ renamed' = {}
    /\ descended' = {}
    /\ pos' = 1
    /\ IF Original_original_name(contract.config).panic
       THEN /\ original_name' = InkAttrEraser_default.original_name
            /\ pc' = "panicked"
       ELSE /\ original_name' = Original_original_name(contract.config).name
            /\ pc' = "Original_visit_file_mut"
    /\ UNCHANGED <<raw, config, stripped, result, contract, generated>>

Original_visit_mod ==
    /\ pc = "Original_visit_file_mut"
    /\ pos <= Len(tree)
    /\ tree[pos].kind = "mod"
    /\ LET r == Original_visit_item_mod_mut(
                    [mod_count |-> mod_count, original_name |-> original_name], tree, pos)
       IN  /\ tree' = r.tree
           /\ mod_count' = r.e.mod_count
           /\ original_name' = r.e.original_name
           /\ renamed' = IF r.renamed THEN renamed \cup {pos} ELSE renamed
    /\ pos' = pos + 1
    /\ UNCHANGED <<raw, config, pc, descended, stripped, result, contract, generated>>

Original_visit_attr ==
    /\ pc = "Original_visit_file_mut"
    /\ pos <= Len(tree)
    /\ tree[pos].kind = "attr"
    /\ LET r == Original_visit_attribute_mut(tree, pos)
       IN  /\ tree' = r.tree
           /\ descended' = IF r.descend THEN descended \cup {pos} ELSE descended
    /\ pos' = pos + 1
    /\ UNCHANGED <<raw, config, pc, mod_count, original_name, renamed, stripped,
                   result, contract, generated>>

Original_visit_other ==
    /\ pc = "Original_visit_file_mut"
    /\ pos <= Len(tree)
    /\ tree[pos].kind \notin {"mod", "attr"}
    /\ pos' = pos + 1
    /\ UNCHANGED <<raw, config, pc, tree, mod_count, original_name, renamed,
                   descended, stripped, result, contract, generated>>

\* Original::generate_code, line 85.
Original_generate_code_return ==
    /\ pc = "Original_visit_file_mut"
    /\ pos > Len(tree)
    /\ generated' = into_token_stream(tree)
    /\ pc' = "generated"
    /\ UNCHANGED <<raw, config, tree, pos, mod_count, original_name, renamed,
                   descended, stripped, result, contract>>

Next ==
    \/ Contract_new
    \/ Contract_remove_ink_attrs_enter
    \/ Contract_visit_mod
    \/ Contract_visit_attr
    \/ Contract_visit_other
    \/ Contract_remove_ink_attrs_return
    \/ Contract_new_finish
    \/ Original_generate_code_enter
    \/ Original_visit_mod
    \/ Original_visit_attr
    \/ Original_visit_other
    \/ Original_generate_code_return

Spec == Init /\ [][Next]_vars

----------------------------------------------------------------------------
(* Properties                                                              *)

\* The attribute is `#[ink...]` written as the single bare segment `ink`.
SingleInk(n) == n.kind = "attr" /\ ~n.colon /\ n.path = <<"ink">>

\* The attribute's leading path segment is `ink`.
LeadingInk(n) == n.kind = "attr" /\ n.path[1] = "ink"

LegalIdent(cfg) == cfg.some /\ ~cfg.colon /\ Len(cfg.path) = 1

\* The rename target the configuration stands for.
Target == IF config.some THEN config.path[1] ELSE "original"

\* The first top-level module of a stream.
FirstTopModule(ts) ==
    CHOOSE i \in DOMAIN ts :
        /\ ts[i].kind = "mod" /\ ts[i].depth = 0
        /\ \A j \in 1..(i - 1) : ~(ts[j].kind = "mod" /\ ts[j].depth = 0)

Modules(ts) == {i \in DOMAIN ts : ts[i].kind = "mod"}
Attributes(ts) == {i \in DOMAIN ts : ts[i].kind = "attr"}

\* The eraser of Contract::remove_ink_attrs has returned / the eraser of
\* Original::generate_code has returned.
TwinBuilt == stripped # NoTokens
Regenerated == pc = "generated"
Visiting == pc \in {"Contract_visit_file_mut", "Original_visit_file_mut"}

\* C1 (twin consistency): once generate_code has returned, its stream is the
\* stream remove_ink_attrs returned at construction, node for node (module
\* names, attribute paths and payloads, order), and parses to the
\* original_item the contract stores.
TwinConsistency ==
    Regenerated =>
        /\ generated = stripped
        /\ parse2_ItemMod(generated).ok
        /\ parse2_ItemMod(generated).item = contract.original_item

TwinConsistencyWitness ==
    /\ Regenerated
    /\ LegalIdent(config)
    /\ \E i \in DOMAIN raw : SingleInk(raw[i]) /\ generated[i].path = <<"doc">>
    /\ \E j \in 2..Len(raw) : raw[j].kind = "mod"

\* C2 (attribute elimination): after a run of the eraser no attribute whose
\* leading path segment is `ink` remains, however many segments the path has.
AttributeElimination ==
    /\ TwinBuilt => \A i \in DOMAIN stripped : ~LeadingInk(stripped[i])
    /\ Regenerated => \A i \in DOMAIN generated : ~LeadingInk(generated[i])

\* C3 (single rename): after a run of the eraser the first top-level module
\* carries the resolved target name and every other module, nested or later,
\* has the name it had in the input.
SingleRenameOf(out) ==
    /\ out[FirstTopModule(raw)].ident = Target
    /\ \A j \in Modules(raw) \ {FirstTopModule(raw)} : out[j].ident = raw[j].ident

SingleRename ==
    /\ TwinBuilt => SingleRenameOf(stripped)
    /\ Regenerated => SingleRenameOf(generated)

SingleRenameWitness ==
    /\ Regenerated
    /\ raw[1].ident # Target
    /\ \E j \in Modules(raw) \ {1} :
          /\ raw[j].ident # Target
          /\ generated[j].ident = raw[j].ident
          /\ generated[1].ident = Target

\* C4 (count and order preservation): the output has as many nodes as the
\* input, node for node of the same kind, at the same nesting position and
\* source position, hence the same items in the same order and the same
\* attributes on the same items; nothing is deleted or inserted.
Skeleton(ts) == [i \in DOMAIN ts |-> <<ts[i].kind, ts[i].depth, ts[i].span>>]

CountAndOrderOf(out) ==
    /\ Len(out) = Len(raw)
    /\ Skeleton(out) = Skeleton(raw)
    /\ Cardinality(Attributes(out)) = Cardinality(Attributes(raw))

CountAndOrder ==
    /\ Visiting => CountAndOrderOf(tree)
    /\ TwinBuilt => CountAndOrderOf(stripped)
    /\ Regenerated => CountAndOrderOf(generated)

CountAndOrderWitness ==
    /\ TwinBuilt
    /\ pc = "new_finish"
    /\ Len(raw) >= 3
    /\ \E i \in DOMAIN raw : SingleInk(raw[i]) /\ stripped[i].path = <<"doc">>
    /\ \E i \in DOMAIN raw : raw[i].kind = "fn"

\* C5 (idempotence): remove_ink_attrs applied, with the same configuration
\* and a fresh eraser, to the stream it returned gives that stream again.
Idempotence ==
    TwinBuilt => Contract_remove_ink_attrs(config, stripped) = stripped

IdempotenceWitness ==
    /\ TwinBuilt
    /\ pc = "constructed"
    /\ stripped[1].ident # raw[1].ident
    /\ \E i \in DOMAIN raw : SingleInk(raw[i]) /\ stripped[i] # raw[i]

\* C6 (frame): the eraser changes only the path and payload of the
\* attributes it matches and the ident of the first module it visits; an
\* attribute it does not match and every other node are as in the input.
FrameOf(out) ==
    \A i \in DOMAIN raw :
        IF SingleInk(raw[i])
        THEN [out[i] EXCEPT !.path = raw[i].path, !.tokens = raw[i].tokens] = raw[i]
        ELSE IF i = FirstTopModule(raw)
             THEN [out[i] EXCEPT !.ident = raw[i].ident] = raw[i]
             ELSE out[i] = raw[i]

Frame ==
    /\ TwinBuilt => Len(stripped) = Len(raw) /\ FrameOf(stripped)
    /\ Regenerated => Len(generated) = Len(raw) /\ FrameOf(generated)

FrameWitness ==
    /\ TwinBuilt
    /\ \E i \in DOMAIN raw : SingleInk(raw[i])
    /\ \E i \in DOMAIN raw :
          /\ raw[i].kind = "attr" /\ ~SingleInk(raw[i]) /\ raw[i].tokens # "(inline)"
          /\ stripped[i] = raw[i]

\* C7 (target-name resolution): at both call sites the eraser's name is the
\* configured identifier when one is configured and legal, and `original`
\* when none is configured; with none configured the first module of the
\* stripped output is named `original`.
NameResolved ==
    pc \in {"Contract_visit_file_mut", "new_finish", "constructed",
            "Original_visit_file_mut", "generated"}

TargetNameResolution ==
    /\ NameResolved /\ LegalIdent(config) => original_name = config.path[1]
    /\ NameResolved /\ ~config.some => original_name = "original"
    /\ TwinBuilt /\ ~config.some => stripped[FirstTopModule(raw)].ident = "original"
    /\ Regenerated /\ ~config.some => generated[FirstTopModule(raw)].ident = "original"

TargetNameResolutionWitness ==
    /\ Regenerated
    /\ ~config.some
    /\ raw[1].ident = "m"
    /\ generated[1].ident = "original"
    /\ original_name = "original"

\* C8 (configuration error before mutation): with a rename target that is
\* configured but is no legal bare identifier, Contract::new ends in an error
\* value, raised before any tree is mutated, and produces no stripped stream
\* and no contract.
ConfigurationErrorReported ==
    (config.some /\ ~LegalIdent(config) /\ parse2_ItemMod(raw).ok
        /\ pc \notin {"new", "remove_ink_attrs"}) =>
        /\ result = "Err"
        /\ tree \in {<<>>, parse2_File(raw)}
        /\ stripped = NoTokens
        /\ ~contract.present

\* C9 (neutral-marker replacement): every attribute the eraser matches ends
\* with the single-segment path `doc`, the payload `(inline)` whatever it
\* was, the span of the original path, and was not descended into.
NeutralMarkerOf(out) ==
    \A i \in DOMAIN raw :
        SingleInk(raw[i]) =>
            /\ out[i].kind = "attr"
            /\ ~out[i].colon
            /\ out[i].path = <<"doc">>
            /\ out[i].tokens = "(inline)"
            /\ out[i].span = raw[i].span
            /\ i \notin descended

NeutralMarker ==
    /\ pc = "new_finish" => NeutralMarkerOf(stripped)
    /\ Regenerated => NeutralMarkerOf(generated)

NeutralMarkerWitness ==
    /\ Regenerated
    /\ \E i \in DOMAIN raw :
          /\ SingleInk(raw[i]) /\ raw[i].tokens = "(constructor)"
          /\ generated[i].tokens = "(inline)"
    /\ descended # {}

\* C10 (module counter): an eraser starts with the counter at zero; a visit
\* of a module adds exactly one to it and no other visit changes it; the
\* rename assignment runs only in a visit that finds the counter at zero; so
\* the counter is the number of modules visited so far, at the end the number
\* of modules of the tree, and zero with nothing renamed while no module has
\* been visited.
ModulesBefore(ts, p) == {i \in Modules(ts) : i < p}

CounterCounts ==
    Visiting =>
        /\ mod_count = Cardinality(ModulesBefore(tree, pos))
        /\ pos = 1 => mod_count = 0
        /\ pos > Len(tree) => mod_count = Cardinality(Modules(tree))
        /\ ModulesBefore(tree, pos) = {} => mod_count = 0 /\ renamed = {}

CounterStep ==
    /\ ~Visiting /\ Visiting' => mod_count' = 0 /\ renamed' = {}
    /\ Visiting /\ pc' = pc =>
          IF tree[pos].kind = "mod"
          THEN /\ mod_count' = mod_count + 1
               /\ renamed' # renamed => mod_count = 0 /\ renamed' = renamed \cup {pos}
               /\ mod_count # 0 => tree'[pos].ident = tree[pos].ident
          ELSE mod_count' = mod_count /\ renamed' = renamed

ModuleCounter == [] CounterCounts /\ [][CounterStep]_vars

ModuleCounterWitness ==
    /\ Regenerated
    /\ mod_count >= 2
    /\ mod_count = Cardinality(Modules(generated))
    /\ renamed = {1}

====
